---- MODULE Spec2Model ----
(***************************************************************************)
(* Timed website blocker ("student mode") of src/main.js: the hosts file,  *)
(* the studentModeTimers registry, the pending setTimeout callbacks and    *)
(* the handlers that change them; the prefetch analysis (getPrefetchFiles, *)
(* parsePrefetchFileBuffer, windowsFileTimeToDate); and the script         *)
(* handlers with their runningProcesses registry.                          *)
(*                                                                         *)
(* Text is modelled as a sequence of tokens.  A token is a run of          *)
(* characters that the program never looks inside; the tokens are chosen   *)
(* so that one text is a substring of another exactly when its token       *)
(* sequence is a contiguous subsequence of the other's.  The text of the   *)
(* hosts file is kept as the sequence of its lines, that is the pieces     *)
(* between its "\n" characters: the text "x\n" is the two lines x and "".  *)
(***************************************************************************)
EXTENDS Integers, Sequences, FiniteSets, TLC

(***************************************************************************)
(* Bounds of the model.                                                    *)
(***************************************************************************)
MaxTimeouts == 2      \* setTimeout calls in one behaviour
MaxTicks == 2         \* clock advances in one behaviour
MaxHostsLines == 10   \* lines the hosts file may grow to
MaxInflight == 1      \* blockWebsiteStudentMode calls suspended at once

(***************************************************************************)
(* Tokens.                                                                 *)
(***************************************************************************)
LF == "LF"
SP == " "
BlockedByApp == "Blocked by Technician App"
DeepBlock == "Student Mode Deep Block"
IngEntries == "ing Entries"

\* String.prototype.toLowerCase, token by token
Lower(tok) ==
  CASE tok = "A" -> "a"
    [] tok = "WWW." -> "www."
    [] tok = "HTTPS://" -> "https://"
    [] OTHER -> tok

LowerCase(s) == [i \in 1..Len(s) |-> Lower(s[i])]

IsSpace(tok) == tok \in {SP, LF}

RECURSIVE TrimLeft(_)
TrimLeft(s) ==
  IF s # <<>> /\ IsSpace(Head(s)) THEN TrimLeft(Tail(s)) ELSE s

RECURSIVE TrimRight(_)
TrimRight(s) ==
  IF s # <<>> /\ IsSpace(s[Len(s)]) THEN TrimRight(SubSeq(s, 1, Len(s) - 1)) ELSE s

\* String.prototype.trim
Trim(s) == TrimRight(TrimLeft(s))

\* String.prototype.includes
Includes(s, sub) ==
  \E i \in 1..(Len(s) - Len(sub) + 1) : SubSeq(s, i, i + Len(sub) - 1) = sub

\* String.prototype.startsWith, for a one-token prefix
StartsWith(s, tok) == s # <<>> /\ Head(s) = tok

\* String.prototype.split(sep): the pieces between the separator tokens;
\* start is where the current piece begins, i the token looked at
RECURSIVE SplitFrom(_, _, _, _)
SplitFrom(s, sep, start, i) ==
  IF i > Len(s) THEN <<SubSeq(s, start, Len(s))>>
  ELSE IF s[i] = sep THEN <<SubSeq(s, start, i - 1)>> \o SplitFrom(s, sep, i + 1, i + 1)
  ELSE SplitFrom(s, sep, start, i + 1)

Split(s, sep) == SplitFrom(s, sep, 1, 1)

\* hostsContent.includes(sub) for a sub without "\n", on the lines of the text
FileIncludes(lines, sub) == \E i \in 1..Len(lines) : Includes(lines[i], sub)

\* the lines of text1 + text2, from the lines of each
Concat(lines1, lines2) ==
  SubSeq(lines1, 1, Len(lines1) - 1)
    \o <<lines1[Len(lines1)] \o lines2[1]>>
    \o Tail(lines2)

\* the lines of the empty text
EmptyText == << <<>> >>

(***************************************************************************)
(* The domains and the spellings the callers pass.                         *)
(***************************************************************************)
ACom == <<"a", ".com">>
AComAu == <<"a", ".com", ".au">>

Urls ==
  { ACom,
    <<"HTTPS://", "www.", "A", ".com", "/", "p">>,
    AComAu }

\* the clean-up of blockWebsite, blockWebsiteDeep and unblockWebsite:
\* trim, lower case, strip the scheme, strip a leading www., cut the path
StripScheme(s) == IF s # <<>> /\ Head(s) \in {"http://", "https://"} THEN Tail(s) ELSE s
StripWww(s) == IF s # <<>> /\ Head(s) = "www." THEN Tail(s) ELSE s
CleanUrl(websiteUrl) ==
  Split(StripWww(StripScheme(LowerCase(Trim(websiteUrl)))), "/")[1]

Www(cleanUrl) == <<"www.">> \o cleanUrl

(***************************************************************************)
(* State.                                                                  *)
(***************************************************************************)
VARIABLES
  admin,              \* what isRunningAsAdmin() returns in this process
  hosts,              \* the lines of the hosts file
  studentModeTimers,  \* the Map, in insertion order: a sequence of timerData
  timeouts,           \* the setTimeout callbacks that are still pending
  nextTimeoutId,      \* the id the next setTimeout call returns
  now,                \* Date.now(), in milliseconds
  ticks,              \* how often the clock has advanced
  inflight,           \* blockWebsiteStudentMode calls suspended in the DNS commands
  sent,               \* the 'student-mode-timer-expired' broadcasts, in order
  cleared,            \* the timeout ids clearTimeout was called with
  last,               \* the handler that ran last, its argument and its result
  prefetchDir,        \* C:\Windows\Prefetch: whether it is there, and its files
  prefetchResult,     \* the prefetch function that ran last and what it returned
  timezoneOffset,     \* the time zone of the process: getTimezoneOffset(), in minutes
  runningProcesses,   \* the Map of tracked scripts, in insertion order
  children,           \* the child processes spawned so far, in spawn order
  scriptResult        \* the script handler that ran last and what it returned

prefetchVars == <<prefetchDir, prefetchResult, timezoneOffset>>
timerVars == <<admin, hosts, studentModeTimers, timeouts, nextTimeoutId, now, ticks,
               inflight, sent, cleared, last>>
scriptVars == <<runningProcesses, children, scriptResult>>
vars == <<timerVars, prefetchVars, scriptVars>>

IOModes == {"ok"}

\* isRunningAsAdmin(): whether the reg query command succeeds
IsRunningAsAdminStub == TRUE

IsRunningAsAdmin == admin

(***************************************************************************)
(* The registry: Map.prototype.get, set, delete and has.                   *)
(***************************************************************************)
TimerKeys(m) == {m[i].websiteUrl : i \in 1..Len(m)}
TimerHas(m, key) == key \in TimerKeys(m)
TimerGet(m, key) == m[CHOOSE i \in 1..Len(m) : m[i].websiteUrl = key]
TimerSet(m, key, data) ==
  IF TimerHas(m, key)
  THEN [i \in 1..Len(m) |-> IF m[i].websiteUrl = key THEN data ELSE m[i]]
  ELSE Append(m, data)
TimerDelete(m, key) ==
  LET Other(e) == e.websiteUrl # key IN SelectSeq(m, Other)

\* clearTimeout(timeoutId): the callback with this id is no longer pending
ClearTimeoutNoop(pending, ids) == pending

ClearTimeout(pending, ids) == {t \in pending : t.id \notin ids}

(***************************************************************************)
(* parseDuration and formatTimeRemaining.                                  *)
(***************************************************************************)
Durations == {"10sec", "1d", "5min"}

\* the names that every object literal inherits from Object.prototype
InheritedKeys == {"constructor", "toString", "valueOf", "hasOwnProperty", "__proto__"}

\* stands for a value that is no number (a function, an object, a text that
\* is no numeral) and for the NaN that arithmetic makes of it
NotANumber == -2000000000

\* a + b and a - b where one side may be no number; the text that + makes
\* of a number and a function is no number either
JsAdd(a, b) == IF a = NotANumber \/ b = NotANumber THEN NotANumber ELSE a + b
JsSub(a, b) == IF a = NotANumber \/ b = NotANumber THEN NotANumber ELSE a - b

\* the delay setTimeout uses: a delay that is no number >= 1 becomes 1
TimeoutDelay(after) == IF after # NotANumber /\ after >= 1 THEN after ELSE 1

\* durations[duration] || 0: an own key gives its number, an inherited key
\* gives a member of Object.prototype, any other key gives undefined
parseDuration(duration) ==
  CASE duration = "10sec" -> 10 * 1000
    [] duration = "12hr" -> 12 * 60 * 60 * 1000
    [] duration = "1d" -> 24 * 60 * 60 * 1000
    [] duration = "2d" -> 2 * 24 * 60 * 60 * 1000
    [] duration = "3d" -> 3 * 24 * 60 * 60 * 1000
    [] duration = "7d" -> 7 * 24 * 60 * 60 * 1000
    [] duration \in InheritedKeys -> NotANumber
    [] OTHER -> 0

\* the % of JavaScript: the result has the sign of the dividend
JsRem(a, b) == IF a >= 0 THEN a % b ELSE 0 - ((0 - a) % b)

\* for NaN every comparison fails and the text is "NaNs"
formatTimeRemaining(ms) ==
  IF ms = NotANumber THEN << <<NotANumber, "s">> >> ELSE
  LET totalSeconds == ms \div 1000
      days == totalSeconds \div (24 * 3600)
      hours == JsRem(totalSeconds, 24 * 3600) \div 3600
      minutes == JsRem(totalSeconds, 3600) \div 60
      seconds == JsRem(totalSeconds, 60)
  IN  IF days > 0 THEN << <<days, "d">>, <<hours, "h">>, <<minutes, "m">>, <<seconds, "s">> >>
      ELSE IF hours > 0 THEN << <<hours, "h">>, <<minutes, "m">>, <<seconds, "s">> >>
      ELSE IF minutes > 0 THEN << <<minutes, "m">>, <<seconds, "s">> >>
      ELSE << <<seconds, "s">> >>

(***************************************************************************)
(* blockWebsite: the result and the hosts file it leaves.                  *)
(***************************************************************************)
Binding(ip, host) == <<ip, SP>> \o host

blockWebsite(file, websiteUrl, io) ==
  IF ~IsRunningAsAdmin THEN [success |-> FALSE, error |-> "admin", hosts |-> file]
  ELSE IF websiteUrl = <<>> THEN [success |-> FALSE, error |-> "invalid url", hosts |-> file]
  ELSE
    LET cleanUrl == CleanUrl(websiteUrl)
        hostsContent == IF io = "readFails" THEN EmptyText ELSE file
        wwwDomain == Www(cleanUrl)
        \* newEntries.join('\n') + '\n'; the first entry begins with "\n"
        newEntries == << <<>>,
                         <<"#", SP, "#", SP, BlockedByApp>>,
                         Binding("127.0.0.1", cleanUrl),
                         Binding("127.0.0.1", wwwDomain),
                         Binding("0.0.0.0", cleanUrl),
                         Binding("0.0.0.0", wwwDomain),
                         <<>> >>
        updatedContent == Concat(hostsContent, newEntries)
    IN  IF cleanUrl = <<>> THEN [success |-> FALSE, error |-> "invalid format", hosts |-> file]
        ELSE IF \/ FileIncludes(hostsContent, Binding("127.0.0.1", cleanUrl))
                \/ FileIncludes(hostsContent, Binding("127.0.0.1", wwwDomain))
        THEN [success |-> TRUE, error |-> "already blocked", hosts |-> file]
        ELSE IF io = "writeFails" THEN [success |-> FALSE, error |-> "hosts file", hosts |-> file]
        ELSE [success |-> TRUE, error |-> "", hosts |-> updatedContent]

(***************************************************************************)
(* blockWebsiteDeep: dns tells whether the call goes on to the DNS         *)
(* commands, where it is suspended.                                        *)
(***************************************************************************)
blockWebsiteDeep(file, websiteUrl, io1, io2) ==
  IF ~IsRunningAsAdmin THEN [success |-> FALSE, error |-> "admin", hosts |-> file, dns |-> FALSE]
  ELSE
    LET cleanUrl == CleanUrl(websiteUrl)
        hostsResult == blockWebsite(file, cleanUrl, io1)
        hostsContent == hostsResult.hosts
        wwwDomain == Www(cleanUrl)
        blockMarker == <<SP, "#", SP, DeepBlock>>
        additionalBlocks == << Binding("0.0.0.0", cleanUrl) \o blockMarker,
                               Binding("0.0.0.0", wwwDomain) \o blockMarker,
                               Binding("127.0.0.1", cleanUrl) \o blockMarker,
                               Binding("127.0.0.1", wwwDomain) \o blockMarker,
                               Binding("0.0.0.0", <<"*.">> \o cleanUrl) \o blockMarker,
                               Binding("127.0.0.1", <<"*.">> \o cleanUrl) \o blockMarker >>
        deepBlockExists ==
          \E i \in 1..Len(additionalBlocks) :
            FileIncludes(hostsContent, Split(additionalBlocks[i], SP)[2])
        \* '\n\n# Student Mode Deep Blocking Entries\n', then the joined blocks + '\n'
        deepContent == Concat(hostsContent,
                              << <<>>, <<>>, <<"#", SP, DeepBlock, IngEntries>> >>
                                \o additionalBlocks \o << <<>> >>)
    IN  IF cleanUrl = <<>> THEN [success |-> FALSE, error |-> "invalid format", hosts |-> file, dns |-> FALSE]
        ELSE IF ~hostsResult.success
        THEN [success |-> FALSE, error |-> hostsResult.error, hosts |-> file, dns |-> FALSE]
        ELSE IF io2 = "readFails"
        THEN [success |-> TRUE, error |-> "basic level", hosts |-> hostsContent, dns |-> FALSE]
        ELSE IF deepBlockExists
        THEN [success |-> TRUE, error |-> "", hosts |-> hostsContent, dns |-> TRUE]
        ELSE IF io2 = "writeFails"
        THEN [success |-> TRUE, error |-> "basic level", hosts |-> hostsContent, dns |-> FALSE]
        ELSE [success |-> TRUE, error |-> "", hosts |-> deepContent, dns |-> TRUE]

(***************************************************************************)
(* unblockWebsite.                                                         *)
(***************************************************************************)
\* the test of the filter loop: the line blocks cleanUrl and is no comment
RemovesLine(line, cleanUrl) ==
  LET trimmedLine == Trim(line)
      wwwDomain == Www(cleanUrl)
  IN  /\ \/ Includes(trimmedLine, Binding("127.0.0.1", cleanUrl))
         \/ Includes(trimmedLine, Binding("127.0.0.1", wwwDomain))
         \/ Includes(trimmedLine, Binding("0.0.0.0", cleanUrl))
         \/ Includes(trimmedLine, Binding("0.0.0.0", wwwDomain))
         \/ Includes(trimmedLine, <<"*.">> \o cleanUrl)
         \/ (Includes(trimmedLine, <<DeepBlock>>) /\ Includes(trimmedLine, cleanUrl))
      /\ ~StartsWith(trimmedLine, "#")

\* the second test of the loop: a comment line of the deep block
IsDeepComment(line) ==
  LET trimmedLine == Trim(line)
  IN  \/ Includes(trimmedLine, <<DeepBlock, IngEntries>>)
      \/ (StartsWith(trimmedLine, "#") /\ Includes(trimmedLine, <<DeepBlock>>))

\* the guard of the manual path: studentModeTimers.get(cleanUrl) is set
TimerGuardOff(timers, cleanUrl) == FALSE

TimerGuard(timers, cleanUrl) == TimerHas(timers, cleanUrl)

unblockWebsite(file, timers, clock, websiteUrl, io) ==
  IF ~IsRunningAsAdmin
  THEN [success |-> FALSE, error |-> "admin", remaining |-> <<>>, hosts |-> file, removedCount |-> 0]
  ELSE
    LET cleanUrl == CleanUrl(websiteUrl)
        lines == file
        Removed(line) == RemovesLine(line, cleanUrl)
        Kept(line) == ~RemovesLine(line, cleanUrl) /\ ~IsDeepComment(line)
        filteredLines == SelectSeq(lines, Kept)
        removedCount == Len(SelectSeq(lines, Removed))
    IN  IF cleanUrl = <<>>
        THEN [success |-> FALSE, error |-> "invalid format", remaining |-> <<>>,
              hosts |-> file, removedCount |-> 0]
        ELSE IF TimerGuard(timers, cleanUrl)
        THEN [success |-> FALSE, error |-> "student mode active",
              remaining |-> formatTimeRemaining(JsSub(TimerGet(timers, cleanUrl).endTime, clock)),
              hosts |-> file, removedCount |-> 0]
        ELSE IF io = "readFails"
        THEN [success |-> FALSE, error |-> "hosts file", remaining |-> <<>>,
              hosts |-> file, removedCount |-> 0]
        ELSE IF removedCount = 0
        THEN [success |-> TRUE, error |-> "not found", remaining |-> <<>>,
              hosts |-> file, removedCount |-> 0]
        ELSE IF io = "writeFails"
        THEN [success |-> FALSE, error |-> "hosts file", remaining |-> <<>>,
              hosts |-> file, removedCount |-> 0]
        ELSE [success |-> TRUE, error |-> "", remaining |-> <<>>,
              hosts |-> IF filteredLines = <<>> THEN EmptyText ELSE filteredLines,
              removedCount |-> removedCount]

(***************************************************************************)
(* Initial state and the result record of a handler.                       *)
(***************************************************************************)
InitialHosts == << <<"127.0.0.1", SP, "localhost">>, <<>> >>

NoResult ==
  [op |-> "none", websiteUrl |-> <<>>, duration |-> "", io |-> "ok",
   success |-> FALSE, error |-> "", remaining |-> <<>>, activeTimers |-> <<>>,
   count |-> 0, timeoutId |-> 0, endTime |-> 0]

\* a directory that is there and holds no file; no prefetch function has run
EmptyDir == [state |-> "ok", files |-> <<>>]
NoPrefetchResult == [op |-> "none"]

\* no script handler has run
NoScriptResult == [op |-> "none"]

\* no script has been started
ScriptsIdle ==
  /\ runningProcesses = <<>>
  /\ children = <<>>
  /\ scriptResult = NoScriptResult

Init ==
  /\ prefetchDir = EmptyDir
  /\ prefetchResult = NoPrefetchResult
  /\ timezoneOffset = 0    \* no handler of the student mode reads the time zone
  /\ ScriptsIdle
  /\ admin \in BOOLEAN
  /\ hosts = InitialHosts
  /\ studentModeTimers = <<>>
  /\ timeouts = {}
  /\ nextTimeoutId = 1
  /\ now = 0
  /\ ticks = 0
  /\ inflight = <<>>
  /\ sent = <<>>
  /\ cleared = {}
  /\ last = NoResult

(***************************************************************************)
(* ipcMain.handle('firewall-block-website') and                            *)
(* ipcMain.handle('firewall-unblock-website').                             *)
(***************************************************************************)
BlockWebsite(websiteUrl, io) ==
  \E r \in {blockWebsite(hosts, websiteUrl, io)} :
      /\ Len(r.hosts) <= MaxHostsLines
      /\ hosts' = r.hosts
      /\ last' = [NoResult EXCEPT !.op = "block", !.websiteUrl = websiteUrl, !.io = io,
                                  !.success = r.success, !.error = r.error]
      /\ UNCHANGED <<scriptVars, prefetchVars, admin, studentModeTimers, timeouts, nextTimeoutId, now, ticks,
                     inflight, sent, cleared>>

UnblockWebsite(websiteUrl, io) ==
  \E r \in {unblockWebsite(hosts, studentModeTimers, now, websiteUrl, io)} :
      /\ hosts' = r.hosts
      /\ last' = [NoResult EXCEPT !.op = "unblock", !.websiteUrl = websiteUrl, !.io = io,
                                  !.success = r.success, !.error = r.error,
                                  !.remaining = r.remaining, !.count = r.removedCount]
      /\ UNCHANGED <<scriptVars, prefetchVars, admin, studentModeTimers, timeouts, nextTimeoutId, now, ticks,
                     inflight, sent, cleared>>

(***************************************************************************)
(* blockWebsiteStudentMode.  The part after the await: the timer entry     *)
(* and the setTimeout call.  skew is the time between the two Date.now()   *)
(* calls.                                                                  *)
(***************************************************************************)
ClockSkews == {0}

RegisterTimer(websiteUrl, duration, skew) ==
  LET durationMs == parseDuration(duration)
      endTime == JsAdd(now, durationMs)
      startTime == now + skew
      timerData == [websiteUrl |-> websiteUrl, duration |-> duration, endTime |-> endTime,
                    startTime |-> startTime, timeoutId |-> nextTimeoutId]
  IN  /\ studentModeTimers' = TimerSet(studentModeTimers, websiteUrl, timerData)
      /\ timeouts' = timeouts \cup {[id |-> nextTimeoutId, websiteUrl |-> websiteUrl,
                                     fireAt |-> startTime + TimeoutDelay(durationMs)]}
      /\ nextTimeoutId' = nextTimeoutId + 1
      /\ now' = startTime
      /\ ticks' = IF skew > 0 THEN ticks + 1 ELSE ticks
      /\ last' = [NoResult EXCEPT !.op = "student-mode-block", !.websiteUrl = websiteUrl,
                                  !.duration = duration, !.success = TRUE,
                                  !.timeoutId = nextTimeoutId, !.endTime = endTime]

\* ipcMain.handle('student-mode-block-website'), up to the first DNS command
BlockWebsiteStudentMode(websiteUrl, duration, io1, io2, skew) ==
  LET durationMs == parseDuration(duration)
      Fail(error) ==
        /\ last' = [NoResult EXCEPT !.op = "student-mode-block", !.websiteUrl = websiteUrl,
                                    !.duration = duration, !.io = io1, !.error = error]
        /\ UNCHANGED <<scriptVars, prefetchVars, admin, hosts, studentModeTimers, timeouts, nextTimeoutId, now, ticks,
                       inflight, sent, cleared>>
  IN  \E deep \in {blockWebsiteDeep(hosts, websiteUrl, io1, io2)} :
      /\ Len(inflight) < MaxInflight
      /\ nextTimeoutId + Len(inflight) <= MaxTimeouts
      /\ Len(deep.hosts) <= MaxHostsLines
      /\ IF ~IsRunningAsAdmin THEN Fail("admin")
         ELSE IF durationMs = 0 THEN Fail("invalid duration")
         ELSE IF ~deep.success THEN Fail(deep.error)
         ELSE IF deep.dns
         THEN /\ hosts' = deep.hosts
              /\ inflight' = Append(inflight, [websiteUrl |-> websiteUrl, duration |-> duration])
              /\ last' = [NoResult EXCEPT !.op = "deep-block", !.websiteUrl = websiteUrl,
                                          !.duration = duration, !.io = io1, !.success = TRUE]
              /\ UNCHANGED <<scriptVars, prefetchVars, admin, studentModeTimers, timeouts, nextTimeoutId, now, ticks,
                             sent, cleared>>
         ELSE /\ hosts' = deep.hosts
              /\ RegisterTimer(websiteUrl, duration, skew)
              /\ UNCHANGED <<scriptVars, prefetchVars, admin, inflight, sent, cleared>>

\* the callback of exec for the last DNS command of a suspended call:
\* blockWebsiteDeep resolves and blockWebsiteStudentMode goes on.  The
\* callbacks of the three commands before it change nothing and are no
\* steps of their own.
ExecDone(i, skew) ==
  /\ i \in 1..Len(inflight)
  /\ inflight' = SubSeq(inflight, 1, i - 1) \o SubSeq(inflight, i + 1, Len(inflight))
  /\ RegisterTimer(inflight[i].websiteUrl, inflight[i].duration, skew)
  /\ UNCHANGED <<scriptVars, prefetchVars, admin, hosts, sent, cleared>>

(***************************************************************************)
(* The setTimeout callback of blockWebsiteStudentMode.                     *)
(***************************************************************************)
Windows == <<"mainWindow">>

TimerFires(id, io) ==
  \E t \in timeouts :
  /\ t.id = id
  /\ now >= t.fireAt
  /\ \E r \in {unblockWebsite(hosts, studentModeTimers, now, t.websiteUrl, io)} :
         /\ timeouts' = timeouts \ {t}
         /\ last' = [NoResult EXCEPT !.op = "timer-fired", !.websiteUrl = t.websiteUrl,
                                     !.io = io, !.success = r.success, !.error = r.error,
                                     !.timeoutId = t.id]
         /\ IF r.success
            THEN /\ hosts' = r.hosts
                 /\ studentModeTimers' = TimerDelete(studentModeTimers, t.websiteUrl)
                 /\ sent' = sent \o [w \in 1..Len(Windows) |->
                                       [window |-> Windows[w], websiteUrl |-> t.websiteUrl,
                                        timeoutId |-> t.id, fireAt |-> t.fireAt,
                                        at |-> now]]
            ELSE UNCHANGED <<hosts, studentModeTimers, sent>>
         /\ UNCHANGED <<scriptVars, prefetchVars, admin, nextTimeoutId, now, ticks, inflight, cleared>>

(***************************************************************************)
(* getStudentModeStatus and cancelStudentMode.                             *)
(***************************************************************************)
\* the test that puts an entry into activeTimers
IsActiveInclusive(timerData, currentTime) == JsSub(timerData.endTime, currentTime) >= 0

IsActive(timerData, currentTime) == JsSub(timerData.endTime, currentTime) > 0

GetStudentModeStatus ==
  LET currentTime == now
      Active(e) == IsActive(e, currentTime)
      Stale(e) == ~IsActive(e, currentTime)
      Snapshot(e) == [websiteUrl |-> e.websiteUrl, duration |-> e.duration,
                      startTime |-> e.startTime, endTime |-> e.endTime,
                      remainingMs |-> JsSub(e.endTime, currentTime),
                      remainingFormatted |-> formatTimeRemaining(JsSub(e.endTime, currentTime))]
      kept == SelectSeq(studentModeTimers, Active)
      stale == SelectSeq(studentModeTimers, Stale)
      staleIds == {stale[i].timeoutId : i \in 1..Len(stale)}
      activeTimers == [i \in 1..Len(kept) |-> Snapshot(kept[i])]
  IN  /\ studentModeTimers' = kept
      /\ timeouts' = ClearTimeout(timeouts, staleIds)
      /\ cleared' = cleared \cup staleIds
      /\ last' = [NoResult EXCEPT !.op = "status", !.success = TRUE,
                                  !.activeTimers = activeTimers, !.count = Len(activeTimers)]
      /\ UNCHANGED <<scriptVars, prefetchVars, admin, hosts, nextTimeoutId, now, ticks, inflight, sent>>

\* a cancelStudentMode that does not stop when there is no entry
CancelStudentModeLenient(websiteUrl, io) ==
  \E remaining \in {TimerDelete(studentModeTimers, websiteUrl)} :
   \E unblockResult \in {unblockWebsite(hosts, remaining, now, websiteUrl, io)} :
      /\ studentModeTimers' = remaining
      /\ hosts' = unblockResult.hosts
      /\ last' = [NoResult EXCEPT !.op = "cancel", !.websiteUrl = websiteUrl, !.io = io,
                                  !.success = unblockResult.success,
                                  !.error = unblockResult.error]
      /\ UNCHANGED <<scriptVars, prefetchVars, admin, timeouts, nextTimeoutId, now, ticks, inflight, sent, cleared>>

CancelStudentMode(websiteUrl, io) ==
  IF ~TimerHas(studentModeTimers, websiteUrl)
  THEN /\ last' = [NoResult EXCEPT !.op = "cancel", !.websiteUrl = websiteUrl, !.io = io,
                                   !.error = "no timer"]
       /\ UNCHANGED <<scriptVars, prefetchVars, admin, hosts, studentModeTimers, timeouts, nextTimeoutId, now, ticks,
                      inflight, sent, cleared>>
  ELSE
    \E timerData \in {TimerGet(studentModeTimers, websiteUrl)},
       remaining \in {TimerDelete(studentModeTimers, websiteUrl)} :
     \E unblockResult \in {unblockWebsite(hosts, remaining, now, websiteUrl, io)} :
        /\ timeouts' = ClearTimeout(timeouts, {timerData.timeoutId})
        /\ cleared' = cleared \cup {timerData.timeoutId}
        /\ studentModeTimers' = remaining
        /\ hosts' = unblockResult.hosts
        /\ last' = [NoResult EXCEPT !.op = "cancel", !.websiteUrl = websiteUrl, !.io = io,
                                    !.success = unblockResult.success,
                                    !.error = unblockResult.error,
                                    !.timeoutId = timerData.timeoutId]
        /\ UNCHANGED <<scriptVars, prefetchVars, admin, nextTimeoutId, now, ticks, inflight, sent>>

(***************************************************************************)
(* The clock.                                                              *)
(***************************************************************************)
ClockSteps == {10 * 1000}

Tick(step) ==
  /\ ticks < MaxTicks
  /\ now' = now + step
  /\ ticks' = ticks + 1
  /\ last' = [NoResult EXCEPT !.op = "tick"]
  /\ UNCHANGED <<scriptVars, prefetchVars, admin, hosts, studentModeTimers, timeouts, nextTimeoutId, inflight, sent,
                 cleared>>

Next ==
  \/ \E u \in Urls, io \in IOModes : BlockWebsite(u, io)
  \/ \E u \in Urls, io \in IOModes : UnblockWebsite(u, io)
  \/ \E u \in Urls, d \in Durations, io1 \in IOModes, io2 \in IOModes, skew \in ClockSkews :
       BlockWebsiteStudentMode(u, d, io1, io2, skew)
  \/ \E i \in 1..MaxInflight, skew \in ClockSkews : ExecDone(i, skew)
  \/ \E id \in 1..MaxTimeouts, io \in IOModes : TimerFires(id, io)
  \/ GetStudentModeStatus
  \/ \E u \in Urls, io \in IOModes : CancelStudentMode(u, io)
  \/ \E step \in ClockSteps : Tick(step)

Spec == Init /\ [][Next]_vars

(***************************************************************************)
(* The same handlers in an environment where reading or writing the hosts  *)
(* file can fail and where the clock can advance between the two           *)
(* Date.now() calls of blockWebsiteStudentMode.                            *)
(***************************************************************************)
EnvIOModes == {"ok", "readFails", "writeFails"}
EnvClockSkews == {0, 1}
EnvUrls == {ACom}
EnvDurations == {"10sec", "5min", "constructor"}

NextEnv ==
  \/ \E u \in EnvUrls, io \in EnvIOModes : BlockWebsite(u, io)
  \/ \E u \in EnvUrls, io \in EnvIOModes : UnblockWebsite(u, io)
  \/ \E u \in EnvUrls, d \in EnvDurations, io1 \in EnvIOModes, io2 \in EnvIOModes,
        skew \in EnvClockSkews :
       BlockWebsiteStudentMode(u, d, io1, io2, skew)
  \/ \E i \in 1..MaxInflight, skew \in EnvClockSkews : ExecDone(i, skew)
  \/ \E id \in 1..MaxTimeouts, io \in EnvIOModes : TimerFires(id, io)
  \/ GetStudentModeStatus
  \/ \E u \in EnvUrls, io \in EnvIOModes : CancelStudentMode(u, io)
  \/ \E step \in ClockSteps : Tick(step)

SpecEnv == Init /\ [][NextEnv]_vars

(***************************************************************************)
(* The prefetch analyzer.                                                  *)
(*                                                                         *)
(* A Date is [day, ms]: the whole days since 1970-01-01 UTC and the        *)
(* milliseconds of the day; getTime() is day * 86400000 + ms.  A FILETIME  *)
(* is [day, ms, sub]: the days since 1601-01-01, the milliseconds of the   *)
(* day and the 100 ns ticks of the millisecond, that is the 64-bit value   *)
(* (day * 86400000 + ms) * 10000 + sub.  Both count in UTC; getFullYear    *)
(* gives the year of the local time of the process.                        *)
(***************************************************************************)
MaxFiles == 3         \* files of a directory that is listed file by file

\* a.getTime() < b.getTime()
TimeLess(a, b) == a.day < b.day \/ (a.day = b.day /\ a.ms < b.ms)

\* the year of the Gregorian calendar that a day, counted from 1970-01-01,
\* lies in
YearOfDay(day) ==
  LET z == day + 719468
      era == z \div 146097
      doe == z - era * 146097
      yoe == (doe - doe \div 1460 + doe \div 36524 - doe \div 146096) \div 365
      doy == doe - (365 * yoe + yoe \div 4 - yoe \div 100)
      mp == (5 * doy + 2) \div 153
  IN  yoe + era * 400 + (IF mp < 10 THEN 0 ELSE 1)

\* Date.prototype.getFullYear: the year of the date in local time, which is
\* timezoneOffset minutes behind UTC
getFullYear(date) ==
  LET localMs == date.ms - timezoneOffset * 60000
  IN  YearOfDay(date.day + (IF localMs < 0 THEN 0 - 1
                            ELSE IF localMs >= 86400000 THEN 1 ELSE 0))

\* windowsEpochDiff = 11644473600000 ms, in days
WindowsEpochDiffDays == 134774

\* windowsFileTimeToDate: <<>> is null, <<date>> a Date
windowsFileTimeToDate(filetime) ==
  LET milliseconds == [day |-> filetime.day, ms |-> filetime.ms]
      date == [day |-> milliseconds.day - WindowsEpochDiffDays, ms |-> milliseconds.ms]
  IN  IF milliseconds.day < WindowsEpochDiffDays THEN <<>>
      ELSE IF getFullYear(date) < 1970 \/ getFullYear(date) > 2050 THEN <<>>
      ELSE <<date>>

\* the FILETIME of all zero bytes
ZeroFileTime == [day |-> 0, ms |-> 0, sub |-> 0]

\* a read of size bytes at offset lies inside the buffer; DataView throws
\* a RangeError when it does not
InRange(buffer, offset, size) == offset + size <= buffer.len

\* lastRunTimes.sort((a, b) => b.getTime() - a.getTime()), by insertion
RECURSIVE InsertTime(_, _)
InsertTime(d, sorted) ==
  IF sorted = <<>> THEN <<d>>
  ELSE IF TimeLess(Head(sorted), d) THEN <<d>> \o sorted
  ELSE <<Head(sorted)>> \o InsertTime(d, Tail(sorted))

RECURSIVE SortTimes(_)
SortTimes(times) ==
  IF times = <<>> THEN <<>>
  ELSE InsertTime(times[Len(times)], SortTimes(SubSeq(times, 1, Len(times) - 1)))

\* the run time that one 64-bit value gives: none, or one Date
RunTime(timestamp) ==
  IF timestamp = ZeroFileTime THEN <<>>
  ELSE LET jsDate == windowsFileTimeToDate(timestamp)
       IN  IF jsDate # <<>> /\ getFullYear(jsDate[1]) > 1970 THEN jsDate ELSE <<>>

\* the loop over the timestamps of a buffer of version >= 26
RECURSIVE RunTimes(_, _, _)
RunTimes(buffer, i, timestampCount) ==
  IF i >= timestampCount THEN <<>>
  ELSE (IF InRange(buffer, 128 + i * 8, 8) THEN RunTime(buffer.u64at128[i + 1]) ELSE <<>>)
         \o RunTimes(buffer, i + 1, timestampCount)

Min(a, b) == IF a < b THEN a ELSE b

\* "Validate and sanitize run count"
SanitizeRunCountOff(runCount, lastRunTimes) == runCount

SanitizeRunCount(runCount, lastRunTimes) ==
  IF runCount <= 0 \/ runCount > 10000
  THEN (IF Len(lastRunTimes) # 0 THEN Len(lastRunTimes) ELSE 1)
  ELSE runCount

\* parsePrefetchFileBuffer: <<>> is null, <<record>> a record.  Of the
\* record the fields that depend on the buffer, the name and the stats are
\* kept; the texts made from the file name are left out.
parsePrefetchFileBuffer(buffer, filename, fileStats) ==
  IF ~InRange(buffer, 0, 4) THEN <<>>    \* the outer catch
  ELSE
    LET version == buffer.u32at0
        countOffset == IF version >= 26 THEN 208 ELSE 144
        readCount == IF version >= 26 THEN buffer.u32at208 ELSE buffer.u32at144
        decoded == IF version >= 26
                   THEN RunTimes(buffer, 0, Min(8, readCount))
                   ELSE RunTime(buffer.u64at128[1])
        lastRunTimes == IF decoded = <<>> THEN <<fileStats.mtime>> ELSE decoded
        Record(runCount, times) ==
          [runCount |-> runCount, lastRunTimes |-> SortTimes(times),
           size |-> buffer.len, prefetchPath |-> filename,
           fileModified |-> fileStats.mtime, version |-> version]
    IN  IF ~InRange(buffer, countOffset, 4)
        THEN <<Record(1, <<fileStats.mtime>>)>>    \* the inner catch
        ELSE <<Record(SanitizeRunCount(readCount, lastRunTimes), lastRunTimes)>>

(***************************************************************************)
(* getPrefetchFiles.                                                       *)
(***************************************************************************)
\* "if (processedCount >= 100) break"
ProcessLimit == 100

\* Math.max(...lastRunTimes.map(d => d.getTime())), as the Date
RECURSIVE Latest(_)
Latest(times) ==
  IF Len(times) = 1 THEN times[1]
  ELSE LET rest == Latest(Tail(times))
       IN  IF TimeLess(times[1], rest) THEN rest ELSE times[1]

\* prefetchData.sort((a, b) => bLatest - aLatest): the stable sort that the
\* comparison asks for.  A record comes before another when its latest run
\* is later, or is the same and it was pushed earlier; the place of a
\* record is one more than the number of records that come before it.
Places(latest) ==
  LET Before(i, j) == \/ TimeLess(latest[j], latest[i])
                      \/ (latest[i] = latest[j] /\ i < j)
  IN  <<>> \o [i \in 1..Len(latest) |->
                Cardinality({j \in 1..Len(latest) : Before(j, i)}) + 1]

Arrange(data, place) ==
  [k \in 1..Len(data) |-> data[CHOOSE i \in 1..Len(data) : place[i] = k]]

\* (<<>> \o f is the sequence f with its elements computed once)
SortRecords(data) ==
  <<>> \o Arrange(data, Places(<<>> \o [i \in 1..Len(data) |-> Latest(data[i].lastRunTimes)]))

SortByLatestOff(prefetchData) == prefetchData

SortByLatest(prefetchData) == SortRecords(prefetchData)

\* file.toLowerCase().endsWith('.pf')
IsPfFile(file) == file.name.ext \in {".pf", ".PF"}

\* one pass of the loop body over a file.  acc holds the records pushed,
\* processedCount, how many files were read and handed to the parser, and
\* whether the loop has left through the break.
ProcessFile(acc, file) ==
  IF acc.stopped THEN acc
  ELSE IF file.read # "ok" THEN acc    \* readFileSync throws: the catch
  ELSE
    LET parsedData == parsePrefetchFileBuffer(file.buffer, file.name, file.stats)
        count == acc.processedCount + Len(parsedData)
    IN  [data |-> acc.data \o parsedData, processedCount |-> count,
         parsedFiles |-> acc.parsedFiles + 1, stopped |-> count >= ProcessLimit]

\* the loop over files[lo..hi], in file order: the first half, then the second
RECURSIVE ProcessFiles(_, _, _, _)
ProcessFiles(files, lo, hi, acc) ==
  IF lo > hi THEN acc
  ELSE IF lo = hi THEN ProcessFile(acc, files[lo])
  ELSE LET mid == (lo + hi) \div 2
           firstHalf == ProcessFiles(files, lo, mid, acc)
       IN  IF firstHalf.stopped THEN firstHalf
           ELSE ProcessFiles(files, mid + 1, hi, firstHalf)

\* the .pf files of the directory and the loop over them
PfFiles(dir) == SelectSeq(dir.files, IsPfFile)

ProcessAll(dir) ==
  ProcessFiles(PfFiles(dir), 1, Len(PfFiles(dir)),
               [data |-> <<>>, processedCount |-> 0, parsedFiles |-> 0,
                stopped |-> FALSE])

\* the object that getPrefetchFiles resolves with; each exit has the fields
\* that the code gives it.  The texts are shortened.
getPrefetchFiles(dir) ==
  LET files == PfFiles(dir)
      done == ProcessAll(dir)
  IN  IF dir.state = "missing"
      THEN [success |-> FALSE, error |-> "not found"]
      ELSE IF dir.state \in {"EACCES", "EPERM"}
      THEN [success |-> FALSE, error |-> "access denied", requiresAdmin |-> TRUE]
      ELSE IF dir.state # "ok"
      THEN [success |-> FALSE, error |-> "failed"]
      ELSE IF Len(files) = 0
      THEN [success |-> TRUE, data |-> <<>>, message |-> "no files"]
      ELSE [success |-> TRUE, data |-> SortByLatest(done.data),
            totalFiles |-> Len(files), processedFiles |-> done.processedCount]

\* how many files the call has read and handed to the parser
FilesParsed(dir) ==
  IF dir.state = "ok" THEN ProcessAll(dir).parsedFiles ELSE 0

(***************************************************************************)
(* The buffers, the files and the directories the functions are given.     *)
(***************************************************************************)
Date(day, ms) == [day |-> day, ms |-> ms]
FileTime(day, ms, sub) == [day |-> day, ms |-> ms, sub |-> sub]

\* 1969-12-31, 1970-06-01, 2023-05-01, 2024-01-01, 2024-01-02 and 2051-01-01
Ft1969 == FileTime(134773, 86399999, 9999)
Ft1970 == FileTime(134925, 0, 0)
Ft2023 == FileTime(154252, 43200000, 5)
Ft2024a == FileTime(154497, 0, 1)
Ft2024b == FileTime(154498, 1, 0)
Ft2051 == FileTime(164359, 0, 0)

Zeros(n) == [i \in 1..n |-> ZeroFileTime]

\* the eight 64-bit values at 0x80
StampPatterns ==
  { Zeros(8),
    <<Ft2024a>> \o Zeros(7),
    <<Ft2023, Ft2024b, Ft2024a>> \o Zeros(5),
    <<Ft1969, Ft1970, Ft2051, Ft2023>> \o Zeros(4),
    <<ZeroFileTime, ZeroFileTime, Ft2024b>> \o Zeros(5) }

\* a word of 32 bits; the largest stands for every value above 10000
Words == {0, 1, 3, 9, 10000, 10001, 2147483647}
Versions == {0, 17, 23, 26, 30, 2147483647}
Lengths == {0, 3, 4, 147, 148, 211, 212, 4096}

Buffers ==
  [len : Lengths, u32at0 : Versions, u32at144 : {0, 3, 10001}, u32at208 : Words,
   u64at128 : StampPatterns]

FileStatsSet == {[mtime |-> Date(20240, 1000)]}

\* the files of the directories: two that are well formed, a truncated
\* one, one of garbage, one of three bytes, one that cannot be read and one
\* that is no .pf file
GoodFile ==
  [name |-> [stem |-> 0, ext |-> ".pf"], read |-> "ok",
   stats |-> [mtime |-> Date(20240, 1000)],
   buffer |-> [len |-> 4096, u32at0 |-> 30, u32at144 |-> 0, u32at208 |-> 3,
               u64at128 |-> <<Ft2023, Ft2024b, Ft2024a>> \o Zeros(5)]]
OldFile ==
  [name |-> [stem |-> 0, ext |-> ".PF"], read |-> "ok",
   stats |-> [mtime |-> Date(20240, 2000)],
   buffer |-> [len |-> 4096, u32at0 |-> 23, u32at144 |-> 1, u32at208 |-> 0,
               u64at128 |-> <<Ft2023>> \o Zeros(7)]]
TruncatedFile ==
  [GoodFile EXCEPT !.buffer.len = 147, !.stats.mtime = Date(20240, 3000)]
GarbageFile ==
  [GoodFile EXCEPT !.buffer.u32at0 = 2147483647, !.buffer.u32at208 = 2147483647,
                   !.buffer.u64at128 = <<Ft1969, Ft1970, Ft2051>> \o Zeros(5),
                   !.stats.mtime = Date(20241, 0)]
TinyFile == [GoodFile EXCEPT !.buffer.len = 3]
UnreadableFile == [GoodFile EXCEPT !.read = "EACCES"]
TextFile == [GoodFile EXCEPT !.name.ext = ".txt"]

FileKinds == {GoodFile, OldFile, TruncatedFile, GarbageFile, TinyFile, UnreadableFile, TextFile}

\* the listing of readdirSync: the stem of a name is its place in it
Listing(kinds) == [i \in 1..Len(kinds) |-> [kinds[i] EXCEPT !.name.stem = i]]

SmallListings ==
  UNION {{Listing(kinds) : kinds \in [1..n -> FileKinds]} : n \in 0..MaxFiles}

\* a directory of more files than the limit: n files of one kind, then m of another
LongListing(n, first, m, rest) ==
  Listing([i \in 1..(n + m) |-> IF i <= n THEN first ELSE rest])

LongListings ==
  { LongListing(ProcessLimit, GoodFile, 1, OldFile),
    LongListing(1, TinyFile, ProcessLimit, GoodFile),
    LongListing(ProcessLimit, UnreadableFile, ProcessLimit, OldFile),
    LongListing(ProcessLimit - 1, GoodFile, 1, TruncatedFile) }

PrefetchDirs ==
  {[state |-> "ok", files |-> files] : files \in SmallListings \cup LongListings}
    \cup {[state |-> st, files |-> <<>>] : st \in {"missing", "EACCES", "EPERM", "EIO"}}

\* the student mode part at rest
TimersIdle ==
  /\ admin = TRUE
  /\ hosts = InitialHosts
  /\ studentModeTimers = <<>>
  /\ timeouts = {}
  /\ nextTimeoutId = 1
  /\ now = 0
  /\ ticks = 0
  /\ inflight = <<>>
  /\ sent = <<>>
  /\ cleared = {}
  /\ last = NoResult

\* ipcMain.handle('system-get-prefetch-files')
GetPrefetchFiles ==
  /\ prefetchResult' = [op |-> "list", result |-> getPrefetchFiles(prefetchDir),
                        parsedFiles |-> FilesParsed(prefetchDir)]
  /\ UNCHANGED <<timerVars, scriptVars, prefetchDir, timezoneOffset>>

\* Asia/Kolkata, UTC and America/New_York in winter
TimezoneOffsets == {0 - 330, 0, 300}

InitPrefetch ==
  /\ prefetchDir \in PrefetchDirs
  /\ timezoneOffset \in TimezoneOffsets
  /\ prefetchResult = NoPrefetchResult
  /\ TimersIdle
  /\ ScriptsIdle

NextPrefetch == GetPrefetchFiles

SpecPrefetch == InitPrefetch /\ [][NextPrefetch]_vars

\* one call of parsePrefetchFileBuffer, with the buffer and the stats that
\* the initial state holds
ParsePrefetchFileBuffer ==
  /\ prefetchResult.op = "call"
  /\ prefetchResult' =
       [op |-> "parse", buffer |-> prefetchResult.buffer, fileStats |-> prefetchResult.fileStats,
        parsedData |-> parsePrefetchFileBuffer(prefetchResult.buffer, [stem |-> 1, ext |-> ".pf"],
                                               prefetchResult.fileStats)]
  /\ UNCHANGED <<timerVars, scriptVars, prefetchDir, timezoneOffset>>

InitParse ==
  /\ prefetchDir = EmptyDir
  /\ timezoneOffset \in TimezoneOffsets
  /\ prefetchResult \in [op : {"call"}, buffer : Buffers, fileStats : FileStatsSet]
  /\ TimersIdle
  /\ ScriptsIdle

NextParse == ParsePrefetchFileBuffer

SpecParse == InitParse /\ [][NextParse]_vars

\* the tick counts that windowsFileTimeToDate is given: around 1601, around
\* the first and the last day of 1970 and of 2050, in between, and the
\* largest day a 64-bit count reaches
FileTimeDays ==
  {0, 134773, 134774, 134775, 135138, 135139, 154252, 164358, 164359, 164360, 21350398}
FileTimeMillis == {0, 1, 43200000, 86399999}
FileTimeSubs == {0, 1, 9999}
FileTimes == [day : FileTimeDays, ms : FileTimeMillis, sub : FileTimeSubs]

\* one call of windowsFileTimeToDate, with the tick count that the initial
\* state holds
WindowsFileTimeToDate ==
  /\ prefetchResult.op = "ticks"
  /\ prefetchResult' =
       [op |-> "convert", filetime |-> prefetchResult.filetime,
        date |-> windowsFileTimeToDate(prefetchResult.filetime)]
  /\ UNCHANGED <<timerVars, scriptVars, prefetchDir, timezoneOffset>>

InitFileTime ==
  /\ prefetchDir = EmptyDir
  /\ timezoneOffset \in TimezoneOffsets
  /\ prefetchResult \in [op : {"ticks"}, filetime : FileTimes]
  /\ TimersIdle
  /\ ScriptsIdle

NextFileTime == WindowsFileTimeToDate

SpecFileTime == InitFileTime /\ [][NextFileTime]_vars

(***************************************************************************)
(* The script handlers.  runningProcesses is the Map in insertion order,   *)
(* a sequence of [processId, process, scriptName, startTime]; a processId  *)
(* is <<scriptName, time>>, the text `${scriptName}_${Date.now()}`, and    *)
(* process is the child process, its index in children.  A child process   *)
(* is [scriptName, processId, killed, closed, errored]: processId is the   *)
(* constant that the 'close' and 'error' listeners of the child hold.      *)
(* Date.now() is the wall clock: two calls may read the same millisecond.  *)
(***************************************************************************)
MaxChildren == 3      \* spawn calls in one behaviour

ProcessKeys(m) == {m[i].processId : i \in 1..Len(m)}

\* runningProcesses.set(processId, processInfo)
ProcessSet(m, processId, processInfo) ==
  IF processId \in ProcessKeys(m)
  THEN [i \in 1..Len(m) |-> IF m[i].processId = processId THEN processInfo ELSE m[i]]
  ELSE Append(m, processInfo)

\* runningProcesses.delete(processId)
ProcessDelete(m, processId) ==
  LET Keep(e) == e.processId # processId IN SelectSeq(m, Keep)

\* the files of the scripts directory, and a name that is no file there
ScriptFiles == {"cleanup.bat", "repair.bat"}
ScriptNames == ScriptFiles \cup {"missing.bat"}

\* the time between the two Date.now() calls of run-script-async
ScriptClockSkews == {0, 1}

\* ipcMain.handle('run-script-async')
RunScriptAsync(scriptName, restarted, skew) ==
  LET processId == <<scriptName, now>>
      childProcess == Len(children) + 1
      Return(result) ==
        /\ scriptResult' = result
        /\ UNCHANGED <<runningProcesses, children>>
  IN  /\ IF ~IsRunningAsAdmin
         THEN IF restarted
              THEN Return([op |-> "run", scriptName |-> scriptName, success |-> FALSE,
                           needsRestart |-> TRUE])
              ELSE Return([op |-> "run", scriptName |-> scriptName, success |-> FALSE,
                           error |-> "admin"])
         ELSE IF scriptName \notin ScriptFiles
         THEN Return([op |-> "run", scriptName |-> scriptName, success |-> FALSE,
                      error |-> "not found"])
         ELSE /\ Len(children) < MaxChildren
              /\ children' = Append(children,
                                    [scriptName |-> scriptName, processId |-> processId,
                                     killed |-> FALSE, closed |-> FALSE, errored |-> FALSE])
              /\ runningProcesses' =
                   ProcessSet(runningProcesses, processId,
                              [processId |-> processId, process |-> childProcess,
                               scriptName |-> scriptName, startTime |-> now + skew])
              /\ scriptResult' = [op |-> "run", scriptName |-> scriptName, success |-> TRUE,
                                  processId |-> processId, isRunning |-> TRUE]
      /\ UNCHANGED <<timerVars, prefetchVars>>

\* childProcess.on('close') of run-script-async
ChildClose(c) ==
  /\ c \in 1..Len(children)
  /\ ~children[c].closed
  /\ children' = [children EXCEPT ![c].closed = TRUE]
  /\ runningProcesses' = ProcessDelete(runningProcesses, children[c].processId)
  /\ scriptResult' = [op |-> "close", process |-> c, processId |-> children[c].processId]
  /\ UNCHANGED <<timerVars, prefetchVars>>

\* childProcess.on('error') of run-script-async: the process could not be
\* spawned or could not be killed
ChildError(c) ==
  /\ c \in 1..Len(children)
  /\ ~children[c].closed /\ ~children[c].errored
  /\ children' = [children EXCEPT ![c].errored = TRUE]
  /\ runningProcesses' = ProcessDelete(runningProcesses, children[c].processId)
  /\ scriptResult' = [op |-> "error", process |-> c, processId |-> children[c].processId]
  /\ UNCHANGED <<timerVars, prefetchVars>>

\* ipcMain.handle('stop-script'): process.kill sets killed when the signal
\* was sent, which it is not to a process that has ended
StopScript(scriptName) ==
  LET ToKill(e) == e.scriptName = scriptName
      Keep(e) == e.scriptName # scriptName
      processesToKill == SelectSeq(runningProcesses, ToKill)
      killedNow == {processesToKill[i].process : i \in 1..Len(processesToKill)}
      killedCount == Cardinality({c \in killedNow : ~children[c].killed})
  IN  /\ children' = [c \in 1..Len(children) |->
                        IF c \in killedNow /\ ~children[c].closed
                        THEN [children[c] EXCEPT !.killed = TRUE]
                        ELSE children[c]]
      /\ runningProcesses' = SelectSeq(runningProcesses, Keep)
      /\ scriptResult' = [op |-> "stop", scriptName |-> scriptName, success |-> TRUE,
                          killedCount |-> IF processesToKill = <<>> THEN 0 ELSE killedCount]
      /\ UNCHANGED <<timerVars, prefetchVars>>

\* ipcMain.handle('get-running-scripts')
GetRunningScripts ==
  /\ scriptResult' =
       [op |-> "list", success |-> TRUE,
        runningScripts |->
          [i \in 1..Len(runningProcesses) |->
             [processId |-> runningProcesses[i].processId,
              scriptName |-> runningProcesses[i].scriptName,
              startTime |-> runningProcesses[i].startTime,
              duration |-> now - runningProcesses[i].startTime]]]
  /\ UNCHANGED <<timerVars, prefetchVars, runningProcesses, children>>

\* the wall clock moves on by a millisecond
ScriptTick ==
  /\ ticks < MaxTicks
  /\ now' = now + 1
  /\ ticks' = ticks + 1
  /\ UNCHANGED <<admin, hosts, studentModeTimers, timeouts, nextTimeoutId, inflight, sent,
                 cleared, last, prefetchVars, scriptVars>>

InitScripts ==
  /\ prefetchDir = EmptyDir
  /\ prefetchResult = NoPrefetchResult
  /\ timezoneOffset = 0
  /\ admin \in BOOLEAN
  /\ hosts = InitialHosts
  /\ studentModeTimers = <<>>
  /\ timeouts = {}
  /\ nextTimeoutId = 1
  /\ now = 0
  /\ ticks = 0
  /\ inflight = <<>>
  /\ sent = <<>>
  /\ cleared = {}
  /\ last = NoResult
  /\ ScriptsIdle

NextScripts ==
  \/ \E scriptName \in ScriptNames, restarted \in BOOLEAN, skew \in ScriptClockSkews :
       RunScriptAsync(scriptName, restarted, skew)
  \/ \E c \in 1..MaxChildren : ChildClose(c)
  \/ \E c \in 1..MaxChildren : ChildError(c)
  \/ \E scriptName \in ScriptNames : StopScript(scriptName)
  \/ GetRunningScripts
  \/ ScriptTick

SpecScripts == InitScripts /\ [][NextScripts]_vars

(***************************************************************************)
(* What the properties speak about.                                        *)
(***************************************************************************)
BlockingIps == {"127.0.0.1", "0.0.0.0"}

\* the line binds exactly this host name to a blocking address
BindsHost(line, host) ==
  LET fields == Split(Trim(line), SP)
  IN  Len(fields) >= 2 /\ (\E ip \in BlockingIps : fields[1] = <<ip>>) /\ fields[2] = host

\* the line is a binding line of the domain: of d, of www.d or of *.d
BindsDomain(line, d) ==
  BindsHost(line, d) \/ BindsHost(line, Www(d)) \/ BindsHost(line, <<"*.">> \o d)

\* the binding lines of the domain, in the order of the file
BindingLines(file, d) ==
  LET Binds(line) == BindsDomain(line, d) IN SelectSeq(file, Binds)

Blocked(file, d) == BindingLines(file, d) # <<>>

\* the marker comment lines that blockWebsite writes above its bindings
IsMarkerComment(line) == StartsWith(Trim(line), "#") /\ Includes(line, <<BlockedByApp>>)
MarkerComments(file) == Len(SelectSeq(file, IsMarkerComment))

Domains == {CleanUrl(u) : u \in Urls}

\* the seconds a remaining-time text stands for
UnitSeconds(unit) ==
  CASE unit = "d" -> 24 * 3600 [] unit = "h" -> 3600 [] unit = "m" -> 60 [] OTHER -> 1
RECURSIVE SecondsOf(_)
SecondsOf(remaining) ==
  IF remaining = <<>> THEN 0
  ELSE Head(remaining)[1] * UnitSeconds(Head(remaining)[2]) + SecondsOf(Tail(remaining))

\* the timeout that fired last belongs to the latest timed block of its url
FiredLatest ==
  /\ last.op = "timer-fired"
  /\ \A i \in 1..Len(studentModeTimers) :
       studentModeTimers[i].websiteUrl = last.websiteUrl
         => studentModeTimers[i].timeoutId = last.timeoutId
  /\ \A i \in 1..Len(inflight) : inflight[i].websiteUrl # last.websiteUrl

(***************************************************************************)
(* C1: while a timed block of domain d is registered and has not expired,  *)
(* no unblockWebsite call, whatever its argument, removes a binding line   *)
(* of d from the hosts file.                                               *)
(***************************************************************************)
C1_TimerNotBypassed ==
  [][\A i \in 1..Len(studentModeTimers) :
       (studentModeTimers[i].endTime > now /\ last'.op = "unblock")
         => BindingLines(hosts', CleanUrl(studentModeTimers[i].websiteUrl))
              = BindingLines(hosts, CleanUrl(studentModeTimers[i].websiteUrl))]_vars

(***************************************************************************)
(* C2: once the deferred action of a timed block has fired, the hosts file *)
(* has no binding line of the domain and the registry has no entry for it. *)
(***************************************************************************)
C2_ExpiryUnblocks ==
  FiredLatest
    => /\ ~Blocked(hosts, CleanUrl(last.websiteUrl))
       /\ ~TimerHas(studentModeTimers, last.websiteUrl)

(***************************************************************************)
(* C3: unblockWebsite for a domain whose canonical name has a registry     *)
(* entry is rejected, the error tells the remaining time, and the hosts    *)
(* file, the registry and the pending timeouts stay as they are; an        *)
(* unblockWebsite(d) that follows a successful cancelStudentMode(d) of a   *)
(* canonical d succeeds.                                                   *)
(***************************************************************************)
C3_TimerExclusivity ==
  [][/\ (last'.op = "unblock" /\ TimerHas(studentModeTimers, CleanUrl(last'.websiteUrl)))
          => /\ ~last'.success
             /\ last'.error = "student mode active"
             /\ LET endTime == TimerGet(studentModeTimers, CleanUrl(last'.websiteUrl)).endTime
                IN  endTime > now => SecondsOf(last'.remaining) = (endTime - now) \div 1000
             /\ hosts' = hosts
             /\ studentModeTimers' = studentModeTimers
             /\ timeouts' = timeouts
     /\ (/\ last.op = "cancel" /\ last.success
         /\ last.websiteUrl = CleanUrl(last.websiteUrl)
         /\ last'.op = "unblock" /\ last'.websiteUrl = last.websiteUrl)
          => last'.success]_vars

C3_Witness ==
  /\ last.op = "unblock" /\ last.websiteUrl = ACom
  /\ last.error = "student mode active"
  /\ TimerHas(studentModeTimers, ACom)
  /\ TimerGet(studentModeTimers, ACom).duration = "1d"
  /\ last.remaining = << <<1, "d">>, <<0, "h">>, <<0, "m">>, <<0, "s">> >>

(***************************************************************************)
(* C4: at most one deferred auto-unblock action is pending for a domain.   *)
(***************************************************************************)
C4_OnePendingPerDomain ==
  \A t1 \in timeouts, t2 \in timeouts :
    CleanUrl(t1.websiteUrl) = CleanUrl(t2.websiteUrl) => t1 = t2

(***************************************************************************)
(* C5: every key of the registry is a canonical domain, and no two entries *)
(* have the same canonical domain.                                         *)
(***************************************************************************)
C5_CanonicalKeys ==
  /\ \A key \in TimerKeys(studentModeTimers) : key = CleanUrl(key)
  /\ \A i \in 1..Len(studentModeTimers), j \in 1..Len(studentModeTimers) :
       CleanUrl(studentModeTimers[i].websiteUrl) = CleanUrl(studentModeTimers[j].websiteUrl)
         => i = j

(***************************************************************************)
(* C6: when the deferred action of a timed block has fired, its expiry     *)
(* notification has been sent to every window exactly once, and none was   *)
(* sent before the duration had elapsed.                                   *)
(***************************************************************************)
C6_ExpiredSentOnce ==
  /\ FiredLatest =>
       \A w \in 1..Len(Windows) :
         Cardinality({k \in 1..Len(sent) : /\ sent[k].timeoutId = last.timeoutId
                                           /\ sent[k].window = Windows[w]}) = 1
  /\ \A k \in 1..Len(sent) : sent[k].at >= sent[k].fireAt

(***************************************************************************)
(* C7: after a successful cancelStudentMode(d) the registry has no entry   *)
(* for d, the hosts file has no binding line of d and the entry's timeout  *)
(* is not pending; a cleared timeout never fires.                          *)
(***************************************************************************)
C7_CancelClears ==
  [][/\ (last'.op = "cancel" /\ last'.success)
          => /\ ~TimerHas(studentModeTimers', last'.websiteUrl)
             /\ ~Blocked(hosts', CleanUrl(last'.websiteUrl))
             /\ \A t \in timeouts' : t.id # last'.timeoutId
             /\ last'.timeoutId \in cleared'
     /\ last'.op = "timer-fired" => last'.timeoutId \notin cleared]_vars

C7_Witness ==
  /\ last.op = "cancel" /\ last.success
  /\ last.timeoutId \in cleared
  /\ MarkerComments(hosts) > 0

(***************************************************************************)
(* C8: getStudentModeStatus leaves every entry with endTime <= now out of  *)
(* its result, clears that entry's timeout and deletes the entry; every    *)
(* entry with endTime > now is in the result and stays in the registry;    *)
(* count is the length of the result.                                      *)
(***************************************************************************)
C8_StaleCleanup ==
  [][last'.op = "status" =>
       /\ \A i \in 1..Len(studentModeTimers) :
            LET e == studentModeTimers[i]
                InResult == \E k \in 1..Len(last'.activeTimers) :
                              /\ last'.activeTimers[k].websiteUrl = e.websiteUrl
                              /\ last'.activeTimers[k].endTime = e.endTime
            IN  IF e.endTime <= now
                THEN /\ ~InResult
                     /\ \A t \in timeouts' : t.id # e.timeoutId
                     /\ ~TimerHas(studentModeTimers', e.websiteUrl)
                ELSE /\ InResult
                     /\ TimerHas(studentModeTimers', e.websiteUrl)
                     /\ TimerGet(studentModeTimers', e.websiteUrl) = e
       /\ Len(last'.activeTimers) <= Len(studentModeTimers)
       /\ last'.count = Len(last'.activeTimers)]_vars

C8_Witness ==
  /\ last.op = "status"
  /\ last.count = 1
  /\ cleared # {}
  /\ Len(studentModeTimers) = 1

(***************************************************************************)
(* C9: after blockWebsiteDeep(d) succeeds on a hosts file with no entry    *)
(* for d, the file has the four basic bindings of d and the two wildcard   *)
(* bindings of *.d under the deep-block marker.                            *)
(***************************************************************************)
C9_DeepBlockWildcards ==
  [][\A d \in Domains :
       (/\ last'.op = "deep-block" /\ CleanUrl(last'.websiteUrl) = d
        /\ ~FileIncludes(hosts, d))
         => /\ \A ip \in BlockingIps :
                 /\ \E k \in 1..Len(hosts') : hosts'[k] = Binding(ip, d)
                 /\ \E k \in 1..Len(hosts') : hosts'[k] = Binding(ip, Www(d))
                 /\ \E k \in 1..Len(hosts') :
                      /\ BindsHost(hosts'[k], <<"*.">> \o d)
                      /\ hosts'[k][1] = ip
                      /\ Includes(hosts'[k], <<DeepBlock>>)]_vars

(***************************************************************************)
(* C10: a manual block of d followed by a manual unblock of d leaves no    *)
(* binding line of d in the hosts file and takes away the marker comment   *)
(* that the block wrote.                                                   *)
(***************************************************************************)
C10_UnblockRemovesAll ==
  [][(/\ last.op = "block" /\ last.success /\ last.error = ""
      /\ last'.op = "unblock" /\ last'.success
      /\ CleanUrl(last'.websiteUrl) = CleanUrl(last.websiteUrl))
       => /\ ~Blocked(hosts', CleanUrl(last.websiteUrl))
          /\ MarkerComments(hosts') = MarkerComments(hosts) - 1]_vars

\* how many lines of the file are exactly this line
CountLines(file, line) == Cardinality({k \in 1..Len(file) : file[k] = line})

\* the four binding lines of the domain
FourBindings(d) ==
  {Binding(ip, host) : ip \in BlockingIps, host \in {d, Www(d)}}

(***************************************************************************)
(* C11: of two consecutive successful blockWebsite calls for domain d, the *)
(* second leaves the hosts file as it is; and when the file had no binding *)
(* line of d before the first of them, it has each of the four binding     *)
(* lines of d exactly once after the second.                               *)
(***************************************************************************)
C11_BlockIdempotent ==
  [][\A d \in Domains :
       (/\ last.op = "block" /\ last.success /\ CleanUrl(last.websiteUrl) = d
        /\ last'.op = "block" /\ last'.success /\ CleanUrl(last'.websiteUrl) = d)
         => /\ hosts' = hosts
            /\ LET NoEntryBefore ==
                     IF last.error = "already blocked"
                     THEN ~Blocked(hosts, d)
                     ELSE Len(BindingLines(hosts, d)) = Cardinality(FourBindings(d))
               IN  NoEntryBefore =>
                     \A line \in FourBindings(d) : CountLines(hosts', line) = 1]_vars

\* the registry has an entry for the domain, under whatever spelling
HasTimer(timers, d) == \E key \in TimerKeys(timers) : CleanUrl(key) = d

(***************************************************************************)
(* C12: unblockWebsite for a domain that has no timer and no binding line  *)
(* in the hosts file succeeds with the "not found or already unblocked"    *)
(* message, removes zero lines and leaves the hosts file as it is.         *)
(***************************************************************************)
C12_UnblockIdempotent ==
  [][\A d \in Domains :
       (/\ last'.op = "unblock" /\ CleanUrl(last'.websiteUrl) = d
        /\ admin
        /\ ~HasTimer(studentModeTimers, d)
        /\ ~Blocked(hosts, d))
         => /\ last'.success
            /\ last'.error = "not found"
            /\ last'.count = 0
            /\ hosts' = hosts]_vars

\* the six symbolic durations and their milliseconds
ValidDurations == {"10sec", "12hr", "1d", "2d", "3d", "7d"}
DurationMs(duration) ==
  CASE duration = "10sec" -> 10000
    [] duration = "12hr" -> 43200000
    [] duration = "1d" -> 86400000
    [] duration = "2d" -> 172800000
    [] duration = "3d" -> 259200000
    [] duration = "7d" -> 604800000

(***************************************************************************)
(* C13: every entry of the registry has endTime = startTime + the          *)
(* milliseconds of its duration, whatever the clock does while             *)
(* blockWebsiteStudentMode runs; and the endTime that a successful         *)
(* blockWebsiteStudentMode returns is the endTime of the entry it stored.  *)
(***************************************************************************)
C13_EndTimeExact ==
  /\ \A i \in 1..Len(studentModeTimers) :
       studentModeTimers[i].duration \in ValidDurations
         => studentModeTimers[i].endTime
              = studentModeTimers[i].startTime + DurationMs(studentModeTimers[i].duration)
  /\ (last.op = "student-mode-block" /\ last.success)
       => /\ TimerHas(studentModeTimers, last.websiteUrl)
          /\ TimerGet(studentModeTimers, last.websiteUrl).endTime = last.endTime

(***************************************************************************)
(* C14: in an elevated process, blockWebsiteStudentMode with a duration    *)
(* that is none of the six symbolic durations fails with the invalid       *)
(* duration error and changes neither the hosts file nor the registry, and *)
(* schedules no timeout.                                                   *)
(***************************************************************************)
C14_InvalidDuration ==
  [][(/\ last'.op \in {"student-mode-block", "deep-block"}
      /\ last'.duration \notin ValidDurations
      /\ admin)
       => /\ ~last'.success
          /\ last'.error = "invalid duration"
          /\ hosts' = hosts
          /\ studentModeTimers' = studentModeTimers
          /\ timeouts' = timeouts
          /\ inflight' = inflight
          /\ nextTimeoutId' = nextTimeoutId]_vars

(***************************************************************************)
(* C15: in a process that is not elevated, blockWebsite, blockWebsiteDeep, *)
(* blockWebsiteStudentMode and unblockWebsite fail with the administrator  *)
(* privileges error and leave the hosts file and the registry as they      *)
(* are; and a blockWebsiteStudentMode call that fails, for whatever        *)
(* reason, stores no timer entry and schedules no timeout.                 *)
(***************************************************************************)
C15_NotElevated ==
  [][/\ (~admin /\ last'.op \in {"block", "unblock", "student-mode-block", "deep-block"})
          => /\ ~last'.success
             /\ last'.error = "admin"
             /\ hosts' = hosts
             /\ studentModeTimers' = studentModeTimers
             /\ timeouts' = timeouts
             /\ inflight' = inflight
     /\ ~admin
          => \A u \in Urls, io1 \in EnvIOModes, io2 \in EnvIOModes :
               blockWebsiteDeep(hosts, u, io1, io2)
                 = [success |-> FALSE, error |-> "admin", hosts |-> hosts, dns |-> FALSE]
     /\ (last'.op = "student-mode-block" /\ ~last'.success)
          => /\ studentModeTimers' = studentModeTimers
             /\ timeouts' = timeouts
             /\ inflight' = inflight
             /\ nextTimeoutId' = nextTimeoutId]_vars

C15_Witness ==
  /\ ~admin
  /\ last.op = "student-mode-block" /\ last.error = "admin"
  /\ last.duration = "10sec"
  /\ hosts = InitialHosts /\ studentModeTimers = <<>> /\ timeouts = {}

(***************************************************************************)
(* C16: cancelStudentMode for a domain that has no entry in the registry   *)
(* fails with the "no active timer found" error and changes neither the    *)
(* registry nor the hosts file nor the pending timeouts.                   *)
(***************************************************************************)
C16_CancelNotFound ==
  [][\A d \in Domains :
       (/\ last'.op = "cancel" /\ CleanUrl(last'.websiteUrl) = d
        /\ ~HasTimer(studentModeTimers, d))
         => /\ ~last'.success
            /\ last'.error = "no timer"
            /\ studentModeTimers' = studentModeTimers
            /\ hosts' = hosts
            /\ timeouts' = timeouts]_vars

C16_Witness ==
  /\ admin
  /\ last.op = "cancel" /\ last.error = "no timer"
  /\ ~HasTimer(studentModeTimers, CleanUrl(last.websiteUrl))
  /\ Blocked(hosts, CleanUrl(last.websiteUrl))
  /\ studentModeTimers # <<>>

\* the times are in descending order
MostRecentFirst(times) ==
  \A k \in 1..(Len(times) - 1) : ~TimeLess(times[k], times[k + 1])

(***************************************************************************)
(* C17: for every buffer, parsePrefetchFileBuffer returns null or a record *)
(* with 1 <= runCount <= 10000 whose lastRunTimes is not empty and is      *)
(* sorted most recent first; no exception leaves it.                       *)
(***************************************************************************)
C17_ParseBounds ==
  prefetchResult.op = "parse"
    => \/ prefetchResult.parsedData = <<>>
       \/ /\ Len(prefetchResult.parsedData) = 1
          /\ prefetchResult.parsedData[1].runCount >= 1
          /\ prefetchResult.parsedData[1].runCount <= 10000
          /\ Len(prefetchResult.parsedData[1].lastRunTimes) >= 1
          /\ MostRecentFirst(prefetchResult.parsedData[1].lastRunTimes)

C17_Witness ==
  /\ prefetchResult.op = "parse"
  /\ prefetchResult.buffer.u32at0 = 30
  /\ prefetchResult.buffer.u32at208 = 2147483647
  /\ prefetchResult.buffer.u64at128[1] = Ft2023
  /\ prefetchResult.buffer.u64at128[2] = Ft2024b
  /\ prefetchResult.parsedData # <<>>
  /\ prefetchResult.parsedData[1].runCount = 3
  /\ Len(prefetchResult.parsedData[1].lastRunTimes) = 3
  /\ prefetchResult.parsedData[1].lastRunTimes[1] = Date(19724, 1)

\* a .pf file that can be read, is of a supported version and is as long as
\* the header of its version
WellFormed(file) ==
  /\ file.read = "ok"
  /\ file.buffer.u32at0 \in {17, 23, 26, 30}
  /\ file.buffer.len >= (IF file.buffer.u32at0 >= 26 THEN 212 ELSE 148)

\* the names of the well-formed .pf files of a directory
WellFormedNames(dir) ==
  {dir.files[i].name : i \in {k \in 1..Len(dir.files) :
                                 IsPfFile(dir.files[k]) /\ WellFormed(dir.files[k])}}

(***************************************************************************)
(* C18: for a directory with N <= 100 well-formed .pf files and any number *)
(* of corrupt ones, getPrefetchFiles succeeds, returns exactly the N       *)
(* records of the well-formed files and reports N processed files.  The    *)
(* directory holds at least one .pf file; the exit for a directory without *)
(* any reports no count.                                                   *)
(***************************************************************************)
C18_BatchTolerance ==
  (/\ prefetchResult.op = "list"
   /\ prefetchDir.state = "ok"
   /\ PfFiles(prefetchDir) # <<>>
   /\ Cardinality(WellFormedNames(prefetchDir)) <= 100)
    => /\ prefetchResult.result.success
       /\ Len(prefetchResult.result.data) = Cardinality(WellFormedNames(prefetchDir))
       /\ {prefetchResult.result.data[k].prefetchPath :
             k \in 1..Len(prefetchResult.result.data)} = WellFormedNames(prefetchDir)
       /\ prefetchResult.result.processedFiles = Cardinality(WellFormedNames(prefetchDir))

(***************************************************************************)
(* C19: one call of getPrefetchFiles reads and parses at most 100 files.   *)
(***************************************************************************)
C19_AtMostHundred ==
  prefetchResult.op = "list" => prefetchResult.parsedFiles <= 100

(***************************************************************************)
(* C20: the records that getPrefetchFiles returns are in descending order  *)
(* of their latest run time.                                               *)
(***************************************************************************)
C20_SortedByLatest ==
  (prefetchResult.op = "list" /\ prefetchResult.result.success)
    => \A k \in 1..(Len(prefetchResult.result.data) - 1) :
         ~TimeLess(Latest(prefetchResult.result.data[k].lastRunTimes),
                   Latest(prefetchResult.result.data[k + 1].lastRunTimes))

C20_Witness ==
  /\ prefetchResult.op = "list"
  /\ Len(prefetchDir.files) = 3
  /\ Len(prefetchResult.result.data) = 3
  /\ prefetchResult.result.data[1].prefetchPath.stem = 3
  /\ prefetchResult.result.data[3].prefetchPath.stem = 1
  /\ TimeLess(Latest(prefetchResult.result.data[3].lastRunTimes),
              Latest(prefetchResult.result.data[2].lastRunTimes))

\* the result carries requiresAdmin: true
RequiresAdmin(result) ==
  "requiresAdmin" \in DOMAIN result /\ result.requiresAdmin

\* an access error
AccessErrors == {"EACCES", "EPERM"}

(***************************************************************************)
(* C21: getPrefetchFiles classifies its failures.  A missing directory     *)
(* gives a failure that is not flagged requiresAdmin; an access error      *)
(* thrown by the enumeration of the directory or by the read of a file     *)
(* gives a failure flagged requiresAdmin; a directory without a .pf file   *)
(* gives success with no record.  The file whose read throws is the first  *)
(* .pf file, which every call reads.                                       *)
(***************************************************************************)
C21_FailureClasses ==
  prefetchResult.op = "list"
    => /\ prefetchDir.state = "missing"
            => ~prefetchResult.result.success /\ ~RequiresAdmin(prefetchResult.result)
       /\ (\/ prefetchDir.state \in AccessErrors
           \/ /\ prefetchDir.state = "ok"
              /\ PfFiles(prefetchDir) # <<>>
              /\ PfFiles(prefetchDir)[1].read \in AccessErrors)
            => ~prefetchResult.result.success /\ RequiresAdmin(prefetchResult.result)
       /\ (prefetchDir.state = "ok" /\ PfFiles(prefetchDir) = <<>>)
            => prefetchResult.result.success /\ prefetchResult.result.data = <<>>

(***************************************************************************)
(* C22: FILETIME round trip.  The tick count (T + 11644473600000) * 10000  *)
(* of a millisecond timestamp T whose year is in 1970..2050 converts to T; *)
(* a tick count whose millisecond value is below the offset between 1601   *)
(* and 1970, or whose year is outside 1970..2050, converts to null.  The   *)
(* year of a timestamp is that of UTC, in which the tick count and the     *)
(* offset are defined.                                                     *)
(***************************************************************************)
C22_FileTimeRoundTrip ==
  prefetchResult.op = "convert"
    => LET filetime == prefetchResult.filetime
           T == [day |-> filetime.day - 134774, ms |-> filetime.ms]
           belowOffset == filetime.day < 134774
           yearInRange == ~belowOffset /\ YearOfDay(T.day) \in 1970..2050
       IN  /\ (yearInRange /\ filetime.sub = 0) => prefetchResult.date = <<T>>
           /\ ~yearInRange => prefetchResult.date = <<>>

(***************************************************************************)
(* C24: in every reachable state a domain that has an entry in the         *)
(* registry is blocked in the hosts file.                                  *)
(***************************************************************************)
C24_RegisteredIsBlocked ==
  \A i \in 1..Len(studentModeTimers) :
    Blocked(hosts, CleanUrl(studentModeTimers[i].websiteUrl))

\* a setTimeout callback for the url is pending
PendingFor(pending, websiteUrl) == \E t \in pending : t.websiteUrl = websiteUrl

(***************************************************************************)
(* C25: no operation leaves a timed-blocked domain blocked in the hosts    *)
(* file with neither a registry entry nor a pending auto-unblock action:   *)
(* when a step takes the entry of a url out of the registry and the domain *)
(* is still blocked after it, a timeout for the url is still pending.  In  *)
(* particular this holds of the entries that getStudentModeStatus purges.  *)
(***************************************************************************)
C25_PurgeKeepsUnblock ==
  [][\A i \in 1..Len(studentModeTimers) :
       LET websiteUrl == studentModeTimers[i].websiteUrl
       IN  (/\ ~TimerHas(studentModeTimers', websiteUrl)
            /\ Blocked(hosts', CleanUrl(websiteUrl)))
             => PendingFor(timeouts', websiteUrl)]_vars

(***************************************************************************)
(* C26: a failed cancelStudentMode(d) leaves the state as it was: when the *)
(* registry has an entry for d and the call fails, the entry is still in   *)
(* the registry after the call, the timeout of the entry is still pending  *)
(* if it was before, and the hosts file is unchanged.                      *)
(***************************************************************************)
C26_FailedCancelKeeps ==
  [][(/\ last'.op = "cancel" /\ ~last'.success
      /\ TimerHas(studentModeTimers, last'.websiteUrl))
       => /\ TimerHas(studentModeTimers', last'.websiteUrl)
          /\ TimerGet(studentModeTimers', last'.websiteUrl)
               = TimerGet(studentModeTimers, last'.websiteUrl)
          /\ \A t \in timeouts :
               t.id = TimerGet(studentModeTimers, last'.websiteUrl).timeoutId
                 => t \in timeouts'
          /\ hosts' = hosts]_vars

\* the line binds some host name to a blocking address
IsBindingLine(line) ==
  LET fields == Split(Trim(line), SP)
  IN  Len(fields) >= 2 /\ (\E ip \in BlockingIps : fields[1] = <<ip>>)

\* the binding lines of the file that are not binding lines of the domain,
\* in the order of the file
OtherBindingLines(file, d) ==
  LET Other(line) == IsBindingLine(line) /\ ~BindsDomain(line, d)
  IN  SelectSeq(file, Other)

(***************************************************************************)
(* C27: unblockWebsite(d) only touches d: the binding lines of the hosts   *)
(* file that bind another domain than d and www.d are the same lines, in   *)
(* the same order, after the call.                                         *)
(***************************************************************************)
C27_UnblockFrame ==
  [][last'.op = "unblock"
       => OtherBindingLines(hosts', CleanUrl(last'.websiteUrl))
            = OtherBindingLines(hosts, CleanUrl(last'.websiteUrl))]_vars

\* the file has a line that binds exactly this host name to 127.0.0.1
HasLoopbackBinding(file, host) ==
  \E k \in 1..Len(file) :
    LET fields == Split(Trim(file[k]), SP)
    IN  Len(fields) >= 2 /\ fields[1] = <<"127.0.0.1">> /\ fields[2] = host

(***************************************************************************)
(* C28: whenever blockWebsite(d) returns success, the hosts file has a     *)
(* line binding exactly the host d to 127.0.0.1 and a line binding exactly *)
(* the host www.d to 127.0.0.1.                                            *)
(***************************************************************************)
C28_BlockBindsExactly ==
  [][(last'.op = "block" /\ last'.success)
       => /\ HasLoopbackBinding(hosts', CleanUrl(last'.websiteUrl))
          /\ HasLoopbackBinding(hosts', Www(CleanUrl(last'.websiteUrl)))]_vars

\* the text of lines old is a prefix of the text of lines new
IsPrefixText(old, new) ==
  /\ Len(new) >= Len(old)
  /\ SubSeq(new, 1, Len(old) - 1) = SubSeq(old, 1, Len(old) - 1)
  /\ Len(new[Len(old)]) >= Len(old[Len(old)])
  /\ SubSeq(new[Len(old)], 1, Len(old[Len(old)])) = old[Len(old)]

(***************************************************************************)
(* C29: blockWebsite never removes or alters a line of the hosts file:     *)
(* after a successful blockWebsite(d) the content the file had before the  *)
(* call is a prefix of its content, also when the read of the file failed  *)
(* and the write succeeded.                                                *)
(***************************************************************************)
C29_BlockAppendsOnly ==
  [][(last'.op = "block" /\ last'.success) => IsPrefixText(hosts, hosts')]_vars

\* the child process runs: neither its 'close' nor its 'error' event has
\* occurred, and stop-script has not stopped it
LiveChild(c) ==
  ~children[c].closed /\ ~children[c].errored /\ ~children[c].killed

(***************************************************************************)
(* C30: every script process whose 'close' or 'error' event has not        *)
(* occurred and that stop-script has not stopped has an entry of its own   *)
(* in runningProcesses, also when the same script was started twice in one *)
(* millisecond; the close of one process never removes the entry of        *)
(* another.                                                                *)
(***************************************************************************)
C30_ScriptsTracked ==
  \A c \in 1..Len(children) :
    LiveChild(c) => \E k \in 1..Len(runningProcesses) : runningProcesses[k].process = c

====
